---- MODULE Spec2Model ----
(***************************************************************************)
(* State-machine model of the DirectSend transaction-lock engine           *)
(* (src/src/instantx.cpp, class CDirectSend and its helper classes).       *)
(*                                                                         *)
(* Every public operation of CDirectSend is one action.  The body of an    *)
(* operation is a pure operator on a record `s` that holds all the maps    *)
(* of CDirectSend, so that the calls an operation makes (Vote,             *)
(* ProcessOrphanTxLockVotes, TryToFinalizeLockCandidate, ResolveConflicts, *)
(* CheckAndRemove, ...) compose exactly as in the code.  What the          *)
(* collaborators answer during one operation (spork flags, UTXO set,       *)
(* mempool, wallet, masternode list) is the record `env`, an input of the  *)
(* operation.                                                              *)
(***************************************************************************)
EXTENDS Integers, Sequences, FiniteSets, TLC

VARIABLES
    mapTxLockCandidates,      \* txHash -> CTxLockCandidate
    mapTxLockVotes,           \* vote hash -> CTxLockVote
    mapTxLockVotesOrphan,     \* vote hash -> CTxLockVote
    mapVotedOutpoints,        \* outpoint -> set of txHash
    mapLockedOutpoints,       \* outpoint -> txHash
    mapLockRequestAccepted,   \* set of txHash (keys of the map)
    mapLockRequestRejected,   \* set of txHash (keys of the map)
    mapMasternodeOrphanVotes, \* masternode outpoint -> expire time
    nCachedBlockHeight,       \* cached tip height
    nTime,                    \* the clock GetTime() reads
    nSteps,                   \* how many steps the run has taken
    cs_directsend,            \* the operation that holds the mutex, or "none"
    pcCheckAndRemove          \* the loop CheckAndRemove runs next, 0: not running

vars == <<mapTxLockCandidates, mapTxLockVotes, mapTxLockVotesOrphan,
          mapVotedOutpoints, mapLockedOutpoints, mapLockRequestAccepted,
          mapLockRequestRejected, mapMasternodeOrphanVotes,
          nCachedBlockHeight, nTime, nSteps, cs_directsend, pcCheckAndRemove>>

----------------------------------------------------------------------------
(* Bounds of the model.  The consensus parameters live in instantx.h and   *)
(* chainparams (not part of src/); the engine is parametric in them, and   *)
(* they are scaled down here so that every case is reached in few steps.   *)

\* COutPointLock::SIGNATURES_REQUIRED (6 in the spec's scenarios)
SIGNATURES_REQUIRED == 2
\* DIRECTSEND_LOCK_TIMEOUT_SECONDS (15 s), in clock ticks
LOCK_TIMEOUT == 0
\* DIRECTSEND_FAILED_TIMEOUT_SECONDS (60 s), in clock ticks
FAILED_TIMEOUT == 1
\* the orphan-rate window 60*10 s, in clock ticks
ORPHAN_EXPIRE == 1
\* Params().GetConsensus().nDirectSendKeepLock, in blocks
KEEP_LOCK == 0
\* last value of the clock / highest tip the model explores
MaxTime == 2
MaxHeight == 1
\* the explored runs: how many steps
MaxSteps == 6
\* the runs of a node that is no masternode: how many steps
MaxWalletSteps == 7
\* steps of a run in which the threads of the node interleave
MaxThreadSteps == 5

(* The universe of inputs: transactions (by hash), outpoints, masternodes. *)
Tx == {1, 2}
OutPoints == {1, 2}
Masternodes == {1, 2, 3, 4}
\* txLockRequest.vin of each transaction, in order; 1 and 2 double-spend 2
Vin(t) == IF t = 1 THEN <<2>> ELSE <<1, 2>>
VinSet(t) == {Vin(t)[i] : i \in 1..Len(Vin(t))}
\* activeMasternode.outpoint of this node
ActiveMasternode == 1
\* a vote is identified by GetHash() = H(txHash, outpoint, outpointMasternode)
VoteHashes == Tx \X OutPoints \X Masternodes

----------------------------------------------------------------------------
(* std::map operations *)
Put(f, k, v) == [x \in (DOMAIN f) \cup {k} |-> IF x = k THEN v ELSE f[x]]
Erase(f, k) == [x \in (DOMAIN f) \ {k} |-> f[x]]
\* std::map::insert: keeps an existing entry
Insert(f, k, v) == IF k \in DOMAIN f THEN f ELSE Put(f, k, v)
EmptyMap == [x \in {} |-> 0]
\* a local variable: x is computed once and named in the rest K of the body
Bind(x, K(_)) == K(x)

\* the engine's state as one record
State == [mapTxLockCandidates |-> mapTxLockCandidates,
          mapTxLockVotes |-> mapTxLockVotes,
          mapTxLockVotesOrphan |-> mapTxLockVotesOrphan,
          mapVotedOutpoints |-> mapVotedOutpoints,
          mapLockedOutpoints |-> mapLockedOutpoints,
          mapLockRequestAccepted |-> mapLockRequestAccepted,
          mapLockRequestRejected |-> mapLockRequestRejected,
          mapMasternodeOrphanVotes |-> mapMasternodeOrphanVotes,
          nCachedBlockHeight |-> nCachedBlockHeight,
          nTime |-> nTime,
          log |-> <<>>,
          freed |-> EmptyMap,
          held |-> <<>>,
          ret |-> TRUE]

\* what an operation emits: appended to s.log
Emit(s, ev) == [s EXCEPT !.log = Append(@, ev)]
Return(s, b) == [s EXCEPT !.ret = b]

\* s.held are the mutexes the calling thread holds, in the order in which
\* LOCK took them (the mutexes are recursive).  A LOCK is released at the
\* end of the scope that declares it: Leave gives r the mutexes of s, the
\* state at the start of the scope.
Lock(s, cs) == [s EXCEPT !.held = Append(@, cs)]
Leave(r, s) == [r EXCEPT !.held = s.held]
Held(s, cs) == \E i \in 1..Len(s.held) : s.held[i] = cs
\* "if (pwalletMain) LOCK(pwalletMain->cs_wallet);": the LOCK is the whole
\* body of the if, and its scope ends with the if
LockInIf(s, fCond, cs) == IF fCond THEN Leave(Lock(s, cs), s) ELSE s
\* LOCK(cs_main); if (pwalletMain) LOCK(cs_wallet); LOCK(cs_directsend);
LockMainWalletDirectSend(s, env) ==
    Lock(LockInIf(Lock(s, "cs_main"), env.fWallet, "cs_wallet"), "cs_directsend")
\* a failed assertion is the event "AssertLockHeld"
AssertLockHeld(s, cs) ==
    IF Held(s, cs) THEN s ELSE Emit(s, <<"AssertLockHeld", cs>>)
AssertWalletLockHeld(s, env) ==
    IF env.fWallet THEN AssertLockHeld(s, "cs_wallet") ELSE s

----------------------------------------------------------------------------
(* CTxLockVote *)
NewVote(v, now) == [txHash |-> v[1], nTimeCreated |-> now, nConfirmedHeight |-> -1]

VoteIsExpired(vote, nHeight) ==
    vote.nConfirmedHeight # -1 /\ nHeight - vote.nConfirmedHeight > KEEP_LOCK

VoteIsTimedOut(vote, now) == now - vote.nTimeCreated > LOCK_TIMEOUT

\* CTxLockVote::IsValid: the masternode list, the UTXO set, the rank and the
\* signature are the collaborators' answer; env.badMN is the masternode whose
\* votes fail one of these checks during this operation (0: none)
VoteIsValid(v, env) == v[3] # env.badMN

(* COutPointLock *)
NewOutPointLock == [votes |-> {}, fAttacked |-> FALSE]

OutPointLockAddVote(lock, v) ==
    IF v[3] \in lock.votes THEN lock ELSE [lock EXCEPT !.votes = @ \cup {v[3]}]

\* a variant that reports success whether or not the signer is present
OutPointLockAddVoteRetAlways(lock, v) == TRUE

OutPointLockAddVoteRet(lock, v) == v[3] \notin lock.votes

IsReady(lock) == Cardinality(lock.votes) >= SIGNATURES_REQUIRED

(* CTxLockCandidate *)
NewCandidate(fRequest, outs, now) ==
    [fRequest |-> fRequest,
     mapOutPointLocks |-> [o \in outs |-> NewOutPointLock],
     nTimeCreated |-> now,
     nConfirmedHeight |-> -1,
     nNotified |-> 0]

AddOutPointLock(c, o) ==
    [c EXCEPT !.mapOutPointLocks = Insert(@, o, NewOutPointLock)]

\* a variant that also discards the votes of the attacked outpoint
MarkOutpointAsAttackedDroppingVotes(c, o) ==
    IF o \in DOMAIN c.mapOutPointLocks
    THEN [c EXCEPT !.mapOutPointLocks[o] = [votes |-> {}, fAttacked |-> TRUE]]
    ELSE c

MarkOutpointAsAttacked(c, o) ==
    IF o \in DOMAIN c.mapOutPointLocks
    THEN [c EXCEPT !.mapOutPointLocks[o].fAttacked = TRUE]
    ELSE c

CandidateAddVote(c, v) ==
    IF v[2] \notin DOMAIN c.mapOutPointLocks THEN c
    ELSE [c EXCEPT !.mapOutPointLocks[v[2]] = OutPointLockAddVote(@, v)]

CandidateAddVoteRet(c, v) ==
    /\ v[2] \in DOMAIN c.mapOutPointLocks
    /\ OutPointLockAddVoteRet(c.mapOutPointLocks[v[2]], v)

IsAllOutPointsReady(c) ==
    /\ DOMAIN c.mapOutPointLocks # {}
    /\ \A o \in DOMAIN c.mapOutPointLocks : IsReady(c.mapOutPointLocks[o])

HasMasternodeVoted(c, o, mn) ==
    o \in DOMAIN c.mapOutPointLocks /\ mn \in c.mapOutPointLocks[o].votes

CandidateIsExpired(c, nHeight) ==
    c.nConfirmedHeight # -1 /\ nHeight - c.nConfirmedHeight > KEEP_LOCK

CandidateIsTimedOut(c, now) == now - c.nTimeCreated > LOCK_TIMEOUT

SetConfirmedHeight(c, h) == [c EXCEPT !.nConfirmedHeight = h]

----------------------------------------------------------------------------
(* CDirectSend: queries *)

\* a variant that does not compare the hash the outpoint is locked under
IsLockedByAnyTransaction(s, txHash, env) ==
    /\ env.fSpork3
    /\ txHash \in DOMAIN s.mapTxLockCandidates
    /\ LET locks == s.mapTxLockCandidates[txHash].mapOutPointLocks IN
         /\ DOMAIN locks # {}
         /\ \A o \in DOMAIN locks : o \in DOMAIN s.mapLockedOutpoints

IsLockedDirectSendTransaction(s, txHash, env) ==
    /\ env.fSpork3
    /\ txHash \in DOMAIN s.mapTxLockCandidates
    /\ LET locks == s.mapTxLockCandidates[txHash].mapOutPointLocks IN
         /\ DOMAIN locks # {}
         /\ \A o \in DOMAIN locks :
              o \in DOMAIN s.mapLockedOutpoints /\ s.mapLockedOutpoints[o] = txHash

VoteIsFailed(s, vote, env) ==
    /\ s.nTime - vote.nTimeCreated > FAILED_TIMEOUT
    /\ ~IsLockedDirectSendTransaction(s, vote.txHash, env)

\* floor of the mean of the expire times; 0 on an empty map
RECURSIVE SumOf(_, _)
SumOf(f, K) ==
    IF K = {} THEN 0
    ELSE LET k == CHOOSE x \in K : TRUE IN f[k] + SumOf(f, K \ {k})

GetAverageMasternodeOrphanVoteTime(s) ==
    IF DOMAIN s.mapMasternodeOrphanVotes = {} THEN 0
    ELSE SumOf(s.mapMasternodeOrphanVotes, DOMAIN s.mapMasternodeOrphanVotes)
            \div Cardinality(DOMAIN s.mapMasternodeOrphanVotes)

IsEnoughOrphanVotesForTxAndOutPoint(s, txHash, o) ==
    Cardinality({v \in DOMAIN s.mapTxLockVotesOrphan :
                    s.mapTxLockVotesOrphan[v].txHash = txHash /\ v[2] = o})
        >= SIGNATURES_REQUIRED

IsEnoughOrphanVotesForTx(s, txHash) ==
    \A o \in VinSet(txHash) : IsEnoughOrphanVotesForTxAndOutPoint(s, txHash, o)

----------------------------------------------------------------------------
(* CDirectSend::CheckAndRemove *)

\* a variant that removes the timed-out candidates as well
RemoveExpiredOrTimedOutCandidates(s) ==
    LET cands == s.mapTxLockCandidates
        expired == {t \in DOMAIN cands :
                        \/ CandidateIsExpired(cands[t], s.nCachedBlockHeight)
                        \/ CandidateIsTimedOut(cands[t], s.nTime)}
        outs == UNION {DOMAIN cands[t].mapOutPointLocks : t \in expired}
        hashes == {t \in expired : cands[t].fRequest}
    IN [s EXCEPT
          !.mapLockedOutpoints = [o \in (DOMAIN @) \ outs |-> @[o]],
          !.mapVotedOutpoints = [o \in (DOMAIN @) \ outs |-> @[o]],
          !.mapLockRequestAccepted = @ \ hashes,
          !.mapLockRequestRejected = @ \ hashes,
          !.mapTxLockCandidates = [t \in (DOMAIN @) \ expired |-> @[t]],
          !.freed = [t \in (DOMAIN @) \cup expired |->
                        IF t \in expired THEN cands[t] ELSE @[t]]]

\* lines 637-657: the expired candidates and what is erased with them
RemoveExpiredCandidates(s) ==
    LET cands == s.mapTxLockCandidates
        expired == {t \in DOMAIN cands :
                        CandidateIsExpired(cands[t], s.nCachedBlockHeight)}
        outs == UNION {DOMAIN cands[t].mapOutPointLocks : t \in expired}
        \* GetHash() of a candidate is the hash of its request: for a
        \* candidate without request it is not the key of any map
        hashes == {t \in expired : cands[t].fRequest}
    IN [s EXCEPT
          !.mapLockedOutpoints = [o \in (DOMAIN @) \ outs |-> @[o]],
          !.mapVotedOutpoints = [o \in (DOMAIN @) \ outs |-> @[o]],
          !.mapLockRequestAccepted = @ \ hashes,
          !.mapLockRequestRejected = @ \ hashes,
          !.mapTxLockCandidates = [t \in (DOMAIN @) \ expired |-> @[t]],
          \* the erased objects: what a reference to them still reads
          !.freed = [t \in (DOMAIN @) \cup expired |->
                        IF t \in expired THEN cands[t] ELSE @[t]]]

\* lines 659-670
RemoveExpiredVotes(s) ==
    [s EXCEPT !.mapTxLockVotes =
        [v \in {x \in DOMAIN @ : ~VoteIsExpired(@[x], s.nCachedBlockHeight)} |-> @[v]]]

\* lines 672-683
RemoveTimedOutOrphanVotes(s) ==
    LET late == {v \in DOMAIN s.mapTxLockVotesOrphan :
                    VoteIsTimedOut(s.mapTxLockVotesOrphan[v], s.nTime)}
    IN [s EXCEPT
          !.mapTxLockVotes = [v \in (DOMAIN @) \ late |-> @[v]],
          !.mapTxLockVotesOrphan = [v \in (DOMAIN @) \ late |-> @[v]]]

\* lines 685-695
RemoveFailedVotes(s, env) ==
    [s EXCEPT !.mapTxLockVotes =
        [v \in {x \in DOMAIN @ : ~VoteIsFailed(s, @[x], env)} |-> @[v]]]

\* lines 697-706
RemoveMasternodeOrphanVotes(s) ==
    [s EXCEPT !.mapMasternodeOrphanVotes =
        [m \in {x \in DOMAIN @ : ~(@[x] < s.nTime)} |-> @[m]]]

CheckAndRemove(s, env) ==
    IF ~env.fSynced THEN s
    ELSE RemoveMasternodeOrphanVotes(
            RemoveFailedVotes(
                RemoveTimedOutOrphanVotes(
                    RemoveExpiredVotes(RemoveExpiredCandidates(s))), env))

----------------------------------------------------------------------------
(* CDirectSend: locking a completed candidate *)

\* c is the object the reference txLockCandidate reads, txHash its GetHash()
LockTransactionInputs(s, c, txHash, env) ==
    IF ~env.fSpork2 THEN s
    ELSE IF ~IsAllOutPointsReady(c) THEN s
    ELSE [s EXCEPT !.mapLockedOutpoints =
            [o \in (DOMAIN @) \cup DOMAIN c.mapOutPointLocks |->
                IF o \in DOMAIN @ THEN @[o] ELSE txHash]]

\* a variant that bumps nCompleteTXLocks whether or not the wallet holds the
\* transaction
UpdateLockedTransactionAlwaysCounts(sIn, txHash, env) ==
    Bind(AssertLockHeld(AssertWalletLockHeld(sIn, env), "cs_directsend"), LAMBDA s :
    IF ~IsLockedDirectSendTransaction(s, txHash, env) THEN s
    ELSE [Emit(Emit(s, <<"complete", txHash>>), <<"notify", txHash>>)
            EXCEPT !.mapTxLockCandidates[txHash].nNotified = IF @ < 2 THEN @ + 1 ELSE @])

\* nNotified counts the NotifyTransactionLock signals of the candidate
\* (it stops counting at 2); nCompleteTXLocks++ is the event "complete"
\* It starts with the assertions that cs_wallet (when there is a wallet)
\* and cs_directsend are held.
UpdateLockedTransaction(sIn, txHash, env) ==
    Bind(AssertLockHeld(AssertWalletLockHeld(sIn, env), "cs_directsend"), LAMBDA s :
    IF ~IsLockedDirectSendTransaction(s, txHash, env) THEN s
    ELSE [Emit(IF env.fWallet THEN Emit(s, <<"complete", txHash>>) ELSE s,
               <<"notify", txHash>>)
            EXCEPT !.mapTxLockCandidates[txHash].nNotified = IF @ < 2 THEN @ + 1 ELSE @])

RECURSIVE ResolveConflictsFrom(_, _, _, _)
RECURSIVE ResolveConflictsFromNoMempool(_, _, _, _)
\* a variant that does not look into the mempool
ResolveConflictsFromNoMempool(s, txHash, i, env) ==
    IF i > Len(Vin(txHash))
    THEN \* no conflicts found: included in a block, or all inputs unspent
         IF env.chain = "inblock" THEN Return(s, TRUE)
         ELSE IF env.chain = "spent" THEN Return(s, FALSE)
         ELSE Return(s, TRUE)
    ELSE LET o == Vin(txHash)[i] IN
      IF o \in DOMAIN s.mapLockedOutpoints /\ s.mapLockedOutpoints[o] # txHash
      THEN LET hashConflicting == s.mapLockedOutpoints[o] IN
           IF txHash \notin DOMAIN s.mapTxLockCandidates
              \/ hashConflicting \notin DOMAIN s.mapTxLockCandidates
           THEN Return(Emit(s, <<"missing", txHash, hashConflicting, o>>), FALSE)
           ELSE Return(
                  [CheckAndRemove(
                      [Emit(s, <<"conflict", txHash, hashConflicting, o>>) EXCEPT
                        !.mapTxLockCandidates[txHash] = SetConfirmedHeight(@, 0),
                        !.mapTxLockCandidates[hashConflicting] = SetConfirmedHeight(@, 0)],
                      env)
                    EXCEPT !.mapLockRequestRejected = @ \cup {txHash, hashConflicting}],
                  FALSE)
      ELSE ResolveConflictsFromNoMempool(s, txHash, i + 1, env)

RECURSIVE ResolveConflictsFromUtxoFirst(_, _, _, _)
\* a variant that asks for the coins whether or not the transaction is in a
\* block
ResolveConflictsFromUtxoFirst(s, txHash, i, env) ==
    IF i > Len(Vin(txHash))
    THEN \* no conflicts found: all inputs unspent
         IF env.chain = "utxo" THEN Return(s, TRUE) ELSE Return(s, FALSE)
    ELSE LET o == Vin(txHash)[i] IN
      IF o \in DOMAIN s.mapLockedOutpoints /\ s.mapLockedOutpoints[o] # txHash
      THEN LET hashConflicting == s.mapLockedOutpoints[o] IN
           IF txHash \notin DOMAIN s.mapTxLockCandidates
              \/ hashConflicting \notin DOMAIN s.mapTxLockCandidates
           THEN Return(Emit(s, <<"missing", txHash, hashConflicting, o>>), FALSE)
           ELSE Return(
                  [CheckAndRemove(
                      [Emit(s, <<"conflict", txHash, hashConflicting, o>>) EXCEPT
                        !.mapTxLockCandidates[txHash] = SetConfirmedHeight(@, 0),
                        !.mapTxLockCandidates[hashConflicting] = SetConfirmedHeight(@, 0)],
                      env)
                    EXCEPT !.mapLockRequestRejected = @ \cup {txHash, hashConflicting}],
                  FALSE)
      ELSE IF env.mempool = o THEN Return(s, FALSE)
      ELSE ResolveConflictsFromUtxoFirst(s, txHash, i + 1, env)

ResolveConflictsFrom(s, txHash, i, env) ==
    IF i > Len(Vin(txHash))
    THEN \* no conflicts found: included in a block, or all inputs unspent
         IF env.chain = "inblock" THEN Return(s, TRUE)
         ELSE IF env.chain = "spent" THEN Return(s, FALSE)
         ELSE Return(s, TRUE)
    ELSE LET o == Vin(txHash)[i] IN
      IF o \in DOMAIN s.mapLockedOutpoints /\ s.mapLockedOutpoints[o] # txHash
      THEN LET hashConflicting == s.mapLockedOutpoints[o] IN
           IF txHash \notin DOMAIN s.mapTxLockCandidates
              \/ hashConflicting \notin DOMAIN s.mapTxLockCandidates
           THEN Return(Emit(s, <<"missing", txHash, hashConflicting, o>>), FALSE)
           ELSE Return(
                  [CheckAndRemove(
                      [Emit(s, <<"conflict", txHash, hashConflicting, o>>) EXCEPT
                        !.mapTxLockCandidates[txHash] = SetConfirmedHeight(@, 0),
                        !.mapTxLockCandidates[hashConflicting] = SetConfirmedHeight(@, 0)],
                      env)
                    EXCEPT !.mapLockRequestRejected = @ \cup {txHash, hashConflicting}],
                  FALSE)
      ELSE IF env.mempool = o THEN Return(s, FALSE)
      ELSE ResolveConflictsFrom(s, txHash, i + 1, env)

ResolveConflicts(s, c, txHash, env) ==
    IF ~IsAllOutPointsReady(c) THEN Return(s, FALSE)
    ELSE ResolveConflictsFrom(s, txHash, 1, env)

TryToFinalizeLockCandidate(sIn, c, txHash, env) ==
    IF ~env.fSpork2 THEN sIn
    ELSE Leave(Bind(LockMainWalletDirectSend(sIn, env), LAMBDA s :
        IF IsAllOutPointsReady(c)
            /\ ~IsLockedDirectSendTransaction(s, txHash, env)
        THEN Bind(ResolveConflicts(s, c, txHash, env), LAMBDA r :
                IF r.ret
                THEN UpdateLockedTransaction(
                        LockTransactionInputs(r, c, txHash, env), txHash, env)
                ELSE r)
        ELSE s), sIn)

----------------------------------------------------------------------------
(* CDirectSend: candidates and the node's own votes *)

\* a variant that completes a placeholder whether or not it is timed out
CreateTxLockCandidateAnyTime(s, txHash, env) ==
    IF ~env.fReqValid THEN Return(s, FALSE)
    ELSE IF txHash \notin DOMAIN s.mapTxLockCandidates
    THEN Return([s EXCEPT !.mapTxLockCandidates =
                    Put(@, txHash, NewCandidate(TRUE, VinSet(txHash), s.nTime))], TRUE)
    ELSE IF ~s.mapTxLockCandidates[txHash].fRequest
    THEN Return([s EXCEPT
                    !.mapTxLockCandidates[txHash].fRequest = TRUE,
                    !.mapTxLockCandidates[txHash].mapOutPointLocks =
                        [o \in (DOMAIN @) \cup VinSet(txHash) |->
                            IF o \in DOMAIN @ THEN @[o] ELSE NewOutPointLock]], TRUE)
    ELSE Return(s, TRUE)

\* returns in .ret what CreateTxLockCandidate returns
CreateTxLockCandidate(s, txHash, env) ==
    IF ~env.fReqValid THEN Return(s, FALSE)
    ELSE IF txHash \notin DOMAIN s.mapTxLockCandidates
    THEN Return([s EXCEPT !.mapTxLockCandidates =
                    Put(@, txHash, NewCandidate(TRUE, VinSet(txHash), s.nTime))], TRUE)
    ELSE IF ~s.mapTxLockCandidates[txHash].fRequest
    THEN LET s1 == [s EXCEPT !.mapTxLockCandidates[txHash].fRequest = TRUE] IN
         IF CandidateIsTimedOut(s1.mapTxLockCandidates[txHash], s.nTime)
         THEN Return(s1, FALSE)
         ELSE Return([s1 EXCEPT !.mapTxLockCandidates[txHash].mapOutPointLocks =
                        [o \in (DOMAIN @) \cup VinSet(txHash) |->
                            IF o \in DOMAIN @ THEN @[o] ELSE NewOutPointLock]], TRUE)
    ELSE Return(s, TRUE)

CreateEmptyTxLockCandidate(s, txHash) ==
    IF txHash \in DOMAIN s.mapTxLockCandidates THEN s
    ELSE [s EXCEPT !.mapTxLockCandidates =
            Put(@, txHash, NewCandidate(FALSE, {}, s.nTime))]

\* Vote, for the outpoints in outs.  env.voteFor are the outpoints for which
\* this node is a masternode in the top SIGNATURES_TOTAL whose coin is found
\* and whose signature succeeds (none on a node that is no masternode); the
\* other outpoints are skipped, or end the loop, with no effect.
\* it2 is dereferenced without a test: when hash names no candidate the read
\* is undefined, and env.fDangling is what it yields.
RECURSIVE VoteFrom(_, _, _, _)
VoteFrom(s, txHash, outs, env) ==
    IF outs = {} THEN s
    ELSE
    LET o == CHOOSE x \in outs : \A y \in outs : x <= y
        rest == outs \ {o}
        voted == IF o \in DOMAIN s.mapVotedOutpoints THEN s.mapVotedOutpoints[o] ELSE {}
        fAlreadyVoted ==
            \E hash \in voted :
                IF hash \in DOMAIN s.mapTxLockCandidates
                THEN HasMasternodeVoted(s.mapTxLockCandidates[hash], o, ActiveMasternode)
                ELSE env.fDangling
        v == <<txHash, o, ActiveMasternode>>
        lock == s.mapTxLockCandidates[txHash].mapOutPointLocks[o]
    IN
    IF o \notin env.voteFor \/ fAlreadyVoted THEN VoteFrom(s, txHash, rest, env)
    ELSE
    LET s1 == [s EXCEPT !.mapTxLockVotes = Insert(@, v, NewVote(v, s.nTime))] IN
      IF OutPointLockAddVoteRet(lock, v)
      THEN LET s2 == [s1 EXCEPT
                        !.mapTxLockCandidates[txHash].mapOutPointLocks[o] =
                            OutPointLockAddVote(@, v),
                        !.mapVotedOutpoints = Put(@, o, voted \cup {txHash})]
           IN VoteFrom(Emit(s2, <<"relay", v>>), txHash, rest, env)
      ELSE VoteFrom(s1, txHash, rest, env)

Vote(s, txHash, env) ==
    IF ~env.fMasterNode THEN s
    ELSE IF ~env.fSpork2 THEN s
    ELSE VoteFrom(s, txHash, DOMAIN s.mapTxLockCandidates[txHash].mapOutPointLocks, env)

----------------------------------------------------------------------------
(* CDirectSend: ingestion of votes and requests *)

RECURSIVE EmitTimes(_, _, _)
EmitTimes(s, ev, n) == IF n = 0 THEN s ELSE EmitTimes(Emit(s, ev), ev, n - 1)

\* a variant that does not compare with the average of the masternodes
OrphanVoteRateNoAverage(s, v) ==
    LET mn == v[3]
        nMasternodeOrphanExpireTime == s.nTime + ORPHAN_EXPIRE
    IN
    IF mn \in DOMAIN s.mapMasternodeOrphanVotes /\ s.mapMasternodeOrphanVotes[mn] > s.nTime
    THEN Return(s, FALSE)
    ELSE Return([s EXCEPT !.mapMasternodeOrphanVotes =
                    Put(@, mn, nMasternodeOrphanExpireTime)], TRUE)

\* ProcessTxLockVote, lines 331-349: the orphan vote rate of a masternode
OrphanVoteRate(s, v) ==
    LET mn == v[3]
        nMasternodeOrphanExpireTime == s.nTime + ORPHAN_EXPIRE
    IN
    IF mn \notin DOMAIN s.mapMasternodeOrphanVotes
    THEN Return([s EXCEPT !.mapMasternodeOrphanVotes =
                    Put(@, mn, nMasternodeOrphanExpireTime)], TRUE)
    ELSE LET nPrevOrphanVote == s.mapMasternodeOrphanVotes[mn] IN
         IF nPrevOrphanVote > s.nTime
            /\ nPrevOrphanVote > GetAverageMasternodeOrphanVoteTime(s)
         THEN Return(s, FALSE)
         ELSE Return([s EXCEPT !.mapMasternodeOrphanVotes =
                        Put(@, mn, nMasternodeOrphanExpireTime)], TRUE)

\* ProcessTxLockVote, lines 361-391: the masternode voted for another
\* candidate on the same outpoint; then the vote is added to the voted set
MarkAttacked(s, v) ==
    LET txHash == v[1]
        o == v[2]
        mn == v[3]
        cands == s.mapTxLockCandidates
        voted == IF o \in DOMAIN s.mapVotedOutpoints THEN s.mapVotedOutpoints[o] ELSE {}
        \* the other candidates in which the same masternode voted on o
        conflicting == {hash \in voted \ {txHash} :
                          /\ hash \in DOMAIN cands
                          /\ HasMasternodeVoted(cands[hash], o, mn)}
    IN EmitTimes(
         [s EXCEPT
            !.mapTxLockCandidates =
                [t \in DOMAIN @ |->
                    IF conflicting # {} /\ t \in conflicting \cup {txHash}
                    THEN MarkOutpointAsAttacked(@[t], o) ELSE @[t]],
            !.mapVotedOutpoints = Put(@, o, voted \cup {txHash})],
         <<"ban", mn>>, Cardinality(conflicting))

\* a variant that does not ask whether the candidate is timed out
AttachVoteAnyTime(s, v, env) ==
    LET txHash == v[1] IN
    Bind(MarkAttacked(s, v), LAMBDA s3 :
      IF ~CandidateAddVoteRet(s3.mapTxLockCandidates[txHash], v) THEN Return(s3, FALSE)
      ELSE Bind(Emit([s3 EXCEPT !.mapTxLockCandidates[txHash] = CandidateAddVote(@, v)],
                     <<"attach", v>>), LAMBDA s5 :
             Return(TryToFinalizeLockCandidate(
                        s5, s5.mapTxLockCandidates[txHash], txHash, env), TRUE)))

\* ProcessTxLockVote, lines 352-405: the candidate has its request
AttachVote(s, v, env) ==
    LET txHash == v[1] IN
    IF CandidateIsTimedOut(s.mapTxLockCandidates[txHash], s.nTime) THEN Return(s, FALSE)
    ELSE Bind(MarkAttacked(s, v), LAMBDA s3 :
      IF ~CandidateAddVoteRet(s3.mapTxLockCandidates[txHash], v) THEN Return(s3, FALSE)
      ELSE Bind(Emit([s3 EXCEPT !.mapTxLockCandidates[txHash] = CandidateAddVote(@, v)],
                     <<"attach", v>>), LAMBDA s5 :
             Return(TryToFinalizeLockCandidate(
                        s5, s5.mapTxLockCandidates[txHash], txHash, env), TRUE)))

RECURSIVE ProcessTxLockVote(_, _, _, _)
RECURSIVE ProcessOrphanTxLockVotesFrom(_, _, _)
RECURSIVE ProcessTxLockRequest(_, _, _)

\* a variant that relays the vote only when its candidate has its request
ProcessTxLockVoteRelayKnown(sIn, v, vote, env) ==
    Bind(AssertLockHeld(AssertWalletLockHeld(
            AssertLockHeld(sIn, "cs_main"), env), "cs_directsend"), LAMBDA s :
    LET txHash == v[1] IN
    IF ~VoteIsValid(v, env) THEN Return(s, FALSE)
    ELSE
    IF txHash \notin DOMAIN s.mapTxLockCandidates
       \/ ~s.mapTxLockCandidates[txHash].fRequest
    THEN
      IF v \notin DOMAIN s.mapTxLockVotesOrphan
      THEN LET s1 == CreateEmptyTxLockCandidate(s, txHash)
               s2 == [s1 EXCEPT !.mapTxLockVotesOrphan = Put(@, v, vote)]
               fReprocess == txHash \in s2.mapLockRequestAccepted
                                        \cup s2.mapLockRequestRejected
           IN IF fReprocess /\ IsEnoughOrphanVotesForTx(s2, txHash)
              THEN Return(ProcessTxLockRequest(s2, txHash, env), TRUE)
              ELSE OrphanVoteRate(s2, v)
      ELSE OrphanVoteRate(s, v)
    ELSE AttachVote(Emit(s, <<"relay", v>>), v, env))

\* vote is the CTxLockVote passed by reference, v its hash.  It starts with
\* the assertions that cs_main, cs_wallet (when there is a wallet) and
\* cs_directsend are held.
ProcessTxLockVote(sIn, v, vote, env) ==
    Bind(AssertLockHeld(AssertWalletLockHeld(
            AssertLockHeld(sIn, "cs_main"), env), "cs_directsend"), LAMBDA s :
    LET txHash == v[1] IN
    IF ~VoteIsValid(v, env) THEN Return(s, FALSE)
    ELSE
    LET s0 == Emit(s, <<"relay", v>>) IN
    IF txHash \notin DOMAIN s0.mapTxLockCandidates
       \/ ~s0.mapTxLockCandidates[txHash].fRequest
    THEN
      IF v \notin DOMAIN s0.mapTxLockVotesOrphan
      THEN LET s1 == CreateEmptyTxLockCandidate(s0, txHash)
               s2 == [s1 EXCEPT !.mapTxLockVotesOrphan = Put(@, v, vote)]
               fReprocess == txHash \in s2.mapLockRequestAccepted
                                        \cup s2.mapLockRequestRejected
           IN IF fReprocess /\ IsEnoughOrphanVotesForTx(s2, txHash)
              THEN Return(ProcessTxLockRequest(s2, txHash, env), TRUE)
              ELSE OrphanVoteRate(s2, v)
      ELSE OrphanVoteRate(s0, v)
    ELSE AttachVote(s0, v, env))

\* the orphan votes are visited in the order of their hashes; todo are the
\* hashes not yet visited
ProcessOrphanTxLockVotesFrom(s, todo, env) ==
    IF todo = <<>> THEN s
    ELSE LET v == Head(todo) IN
      IF v \notin DOMAIN s.mapTxLockVotesOrphan
      THEN ProcessOrphanTxLockVotesFrom(s, Tail(todo), env)
      ELSE Bind(ProcessTxLockVote(s, v, s.mapTxLockVotesOrphan[v], env), LAMBDA r :
           \* the call may have erased the entry the iterator is at (the
           \* CheckAndRemove of ResolveConflicts): using the iterator is then
           \* undefined; it either goes on as if nothing happened or the
           \* traversal ends here
           IF v \notin DOMAIN r.mapTxLockVotesOrphan /\ ~env.fDangling THEN r
           ELSE IF r.ret
           THEN ProcessOrphanTxLockVotesFrom(
                    [r EXCEPT !.mapTxLockVotesOrphan = Erase(@, v)], Tail(todo), env)
           ELSE ProcessOrphanTxLockVotesFrom(r, Tail(todo), env))

\* the order of std::map<uint256, ...>: the order of the vote hashes
RECURSIVE InHashOrder(_)
InHashOrder(S) ==
    IF S = {} THEN <<>>
    ELSE LET m == CHOOSE x \in S : \A y \in S :
                      \/ x[1] < y[1]
                      \/ x[1] = y[1] /\ x[2] < y[2]
                      \/ x[1] = y[1] /\ x[2] = y[2] /\ x[3] <= y[3]
         IN <<m>> \o InHashOrder(S \ {m})

ProcessOrphanTxLockVotes(s, env) ==
    Leave(ProcessOrphanTxLockVotesFrom(LockMainWalletDirectSend(s, env),
              InHashOrder(DOMAIN s.mapTxLockVotesOrphan), env), s)

\* a variant that refuses a request with an input locked by another
\* transaction
ProcessTxLockRequestNoConflict(s, txHash, env) ==
    IF \E o \in VinSet(txHash) :
          o \in DOMAIN s.mapLockedOutpoints /\ s.mapLockedOutpoints[o] # txHash
    THEN Return(s, FALSE)
    ELSE
    Leave(Bind(CreateTxLockCandidate(Lock(Lock(s, "cs_main"), "cs_directsend"),
                                     txHash, env), LAMBDA r :
      IF ~r.ret THEN Return(r, FALSE)
      ELSE Bind(ProcessOrphanTxLockVotes(Vote(r, txHash, env), env), LAMBDA s2 :
        IF txHash \in DOMAIN s2.freed
        THEN IF env.fDangling
             THEN Return(TryToFinalizeLockCandidate(
                            s2, s2.freed[txHash], txHash, env), TRUE)
             ELSE Return(s2, TRUE)
        ELSE Return(TryToFinalizeLockCandidate(
                        s2, s2.mapTxLockCandidates[txHash], txHash, env), TRUE))), s)

\* LOCK2(cs_main, cs_directsend) for the whole call
ProcessTxLockRequest(s, txHash, env) ==
    Leave(Bind(CreateTxLockCandidate(Lock(Lock(s, "cs_main"), "cs_directsend"),
                                     txHash, env), LAMBDA r :
      IF ~r.ret THEN Return(r, FALSE)
      ELSE Bind(ProcessOrphanTxLockVotes(Vote(r, txHash, env), env), LAMBDA s2 :
        \* txLockCandidate is a reference taken before the orphan votes were
        \* processed.  When the candidate was erased meanwhile the reference
        \* dangles: the read is undefined, and it yields the erased object
        \* (env.fDangling) or the call ends
        IF txHash \in DOMAIN s2.freed
        THEN IF env.fDangling
             THEN Return(TryToFinalizeLockCandidate(
                            s2, s2.freed[txHash], txHash, env), TRUE)
             ELSE Return(s2, TRUE)
        ELSE Return(TryToFinalizeLockCandidate(
                        s2, s2.mapTxLockCandidates[txHash], txHash, env), TRUE))), s)

\* a variant that does not look the vote up before it processes it
ProcessMessageNoLookup(sIn, v, env) ==
    IF ~env.fSpork2 \/ ~env.fSynced THEN sIn
    ELSE Leave(Bind(LockMainWalletDirectSend(sIn, env), LAMBDA s :
         LET vote == NewVote(v, s.nTime)
             s1 == [s EXCEPT !.mapTxLockVotes = Put(@, v, vote)]
         IN ProcessTxLockVote(s1, v, vote, env)), sIn)

\* the TXLOCKVOTE message
ProcessMessage(sIn, v, env) ==
    IF ~env.fSpork2 \/ ~env.fSynced THEN sIn
    ELSE Leave(Bind(LockMainWalletDirectSend(sIn, env), LAMBDA s :
         IF v \in DOMAIN s.mapTxLockVotes THEN s
         ELSE LET vote == NewVote(v, s.nTime)
                  s1 == [s EXCEPT !.mapTxLockVotes = Put(@, v, vote)]
              IN ProcessTxLockVote(s1, v, vote, env)), sIn)

AcceptLockRequest(s, txHash) ==
    [s EXCEPT !.mapLockRequestAccepted = @ \cup {txHash}]

RejectLockRequest(s, txHash) ==
    [s EXCEPT !.mapLockRequestRejected = @ \cup {txHash}]

UpdatedBlockTip(s, nHeight) == [s EXCEPT !.nCachedBlockHeight = nHeight]

\* a variant that leaves the votes of the candidate as they are
SyncCandidateOnly(s, txHash, nHeightNew) ==
    IF txHash \notin DOMAIN s.mapTxLockCandidates THEN s
    ELSE [s EXCEPT
            !.mapTxLockCandidates[txHash] = SetConfirmedHeight(@, nHeightNew)]

\* nHeightNew is -1 when the transaction is not (or no longer) in a block
\* lines 861-886: the candidate and the votes attached to it
SyncCandidate(s, txHash, nHeightNew) ==
    IF txHash \notin DOMAIN s.mapTxLockCandidates THEN s
    ELSE LET c == s.mapTxLockCandidates[txHash]
             attached == {v \in VoteHashes :
                            /\ v[1] = txHash
                            /\ v[2] \in DOMAIN c.mapOutPointLocks
                            /\ v[3] \in c.mapOutPointLocks[v[2]].votes}
         IN [s EXCEPT
              !.mapTxLockCandidates[txHash] = SetConfirmedHeight(@, nHeightNew),
              !.mapTxLockVotes =
                  [v \in DOMAIN @ |->
                      IF v \in attached
                      THEN [@[v] EXCEPT !.nConfirmedHeight = nHeightNew]
                      ELSE @[v]]]

\* lines 888-909: the orphan votes of the transaction; mapTxLockVotes[hash]
\* makes a default vote when the hash is not a key
SyncOrphans(s, txHash, nHeightNew) ==
    LET orphans == {v \in DOMAIN s.mapTxLockVotesOrphan :
                        s.mapTxLockVotesOrphan[v].txHash = txHash}
    IN [s EXCEPT !.mapTxLockVotes =
            [v \in (DOMAIN @) \cup orphans |->
                IF v \in orphans
                THEN IF v \in DOMAIN @
                     THEN [@[v] EXCEPT !.nConfirmedHeight = nHeightNew]
                     ELSE [txHash |-> 0, nTimeCreated |-> s.nTime,
                           nConfirmedHeight |-> nHeightNew]
                ELSE @[v]]]

SyncTransaction(s, txHash, nHeightNew) ==
    SyncOrphans(SyncCandidate(s, txHash, nHeightNew), txHash, nHeightNew)

----------------------------------------------------------------------------
(* The collaborators' answers during one operation *)

\* everything in order, on a masternode that is in the top SIGNATURES_TOTAL
\* for every outpoint
EnvOk == [fSpork2 |-> TRUE, fSpork3 |-> TRUE, fSynced |-> TRUE,
          fReqValid |-> TRUE, badMN |-> 0, fMasterNode |-> TRUE,
          voteFor |-> OutPoints, mempool |-> 0, chain |-> "utxo",
          fWallet |-> TRUE, fDangling |-> FALSE]

\* the same, where a dangling reference reads the erased object
EnvDangling == [EnvOk EXCEPT !.fDangling = TRUE]

\* the answers the operations of a run meet
RunEnvs == {EnvOk, EnvDangling}

\* the answers in which one collaborator says no
EnvInvalidVote(mn) == [EnvOk EXCEPT !.badMN = mn]
EnvInvalidRequest == [EnvOk EXCEPT !.fReqValid = FALSE]
EnvNoSpork2 == [EnvOk EXCEPT !.fSpork2 = FALSE]
\* the mempool holds another transaction that spends o
EnvMempool(o) == [EnvOk EXCEPT !.mempool = o]
\* the transaction is in no block and a coin of it is not in the UTXO set
EnvSpent == [EnvOk EXCEPT !.chain = "spent"]
\* the transaction is in a block (and its coins are spent by it)
EnvInBlock == [EnvOk EXCEPT !.chain = "inblock"]
EnvNoSpork3 == [EnvOk EXCEPT !.fSpork3 = FALSE]
EnvNotSynced == [EnvOk EXCEPT !.fSynced = FALSE]
EnvNoWallet == [EnvOk EXCEPT !.fWallet = FALSE]
\* this node is no masternode
EnvWallet == [EnvOk EXCEPT !.fMasterNode = FALSE]

\* the votes of the other masternodes
NetVotes == {<<1, 2, 2>>, <<1, 2, 3>>, <<2, 1, 2>>, <<2, 2, 3>>, <<2, 2, 4>>}

----------------------------------------------------------------------------
(* The state machine *)

\* the maps, the cached height and the clock are taken to those of s
AssignEngine(s) ==
    /\ mapTxLockCandidates' = s.mapTxLockCandidates
    /\ mapTxLockVotes' = s.mapTxLockVotes
    /\ mapTxLockVotesOrphan' = s.mapTxLockVotesOrphan
    /\ mapVotedOutpoints' = s.mapVotedOutpoints
    /\ mapLockedOutpoints' = s.mapLockedOutpoints
    /\ mapLockRequestAccepted' = s.mapLockRequestAccepted
    /\ mapLockRequestRejected' = s.mapLockRequestRejected
    /\ mapMasternodeOrphanVotes' = s.mapMasternodeOrphanVotes
    /\ nCachedBlockHeight' = s.nCachedBlockHeight
    /\ nTime' = s.nTime

\* an operation that runs from start to end with no other thread in between
\* takes the engine to s
Assign(s) ==
    /\ nSteps' = nSteps + 1
    /\ AssignEngine(s)
    /\ UNCHANGED <<cs_directsend, pcCheckAndRemove>>

\* a step takes the engine to s
Install(s) == nSteps < MaxSteps /\ Assign(s)

Init ==
    /\ mapTxLockCandidates = EmptyMap
    /\ mapTxLockVotes = EmptyMap
    /\ mapTxLockVotesOrphan = EmptyMap
    /\ mapVotedOutpoints = EmptyMap
    /\ mapLockedOutpoints = EmptyMap
    /\ mapLockRequestAccepted = {}
    /\ mapLockRequestRejected = {}
    /\ mapMasternodeOrphanVotes = EmptyMap
    /\ nCachedBlockHeight = 0
    /\ nTime = 0
    /\ nSteps = 0
    /\ cs_directsend = "none"
    /\ pcCheckAndRemove = 0

\* a peer sends a vote this node does not hold
DoProcessMessage ==
    \E v \in NetVotes \ DOMAIN mapTxLockVotes, env \in RunEnvs :
        Install(ProcessMessage(State, v, env))

DoProcessTxLockRequest ==
    \E t \in Tx, env \in RunEnvs : Install(ProcessTxLockRequest(State, t, env))

\* the host records a request it has not recorded
DoAcceptLockRequest ==
    \E t \in Tx \ (mapLockRequestAccepted \cup mapLockRequestRejected) :
        Install(AcceptLockRequest(State, t))

DoRejectLockRequest ==
    \E t \in Tx \ (mapLockRequestAccepted \cup mapLockRequestRejected) :
        Install(RejectLockRequest(State, t))

DoCheckAndRemove == Install(CheckAndRemove(State, EnvOk))

\* a new block: the tip advances
DoUpdatedBlockTip ==
    \E h \in (nCachedBlockHeight + 1)..MaxHeight : Install(UpdatedBlockTip(State, h))

\* the transaction is found in the block at the tip, or is no longer in a block
DoSyncTransaction ==
    \E t \in Tx, h \in {-1, nCachedBlockHeight} : Install(SyncTransaction(State, t, h))

Tick == nTime < MaxTime /\ Install([State EXCEPT !.nTime = @ + 1])

Next ==
    \/ DoProcessMessage
    \/ DoProcessTxLockRequest
    \/ DoAcceptLockRequest
    \/ DoRejectLockRequest
    \/ DoCheckAndRemove
    \/ DoUpdatedBlockTip
    \/ DoSyncTransaction
    \/ Tick

Spec == Init /\ [][Next]_vars

----------------------------------------------------------------------------
(* The same engine on a node that is no masternode (it casts no votes of   *)
(* its own), followed over longer runs: requests, votes of the network,    *)
(* blocks and the periodic CheckAndRemove.                                 *)

InstallWallet(s) == nSteps < MaxWalletSteps /\ Assign(s)

WalletProcessMessage ==
    \E v \in NetVotes \ DOMAIN mapTxLockVotes :
        InstallWallet(ProcessMessage(State, v, EnvWallet))

WalletProcessTxLockRequest ==
    \E t \in Tx : InstallWallet(ProcessTxLockRequest(State, t, EnvWallet))

WalletCheckAndRemove == InstallWallet(CheckAndRemove(State, EnvWallet))

WalletUpdatedBlockTip ==
    \E h \in (nCachedBlockHeight + 1)..MaxHeight :
        InstallWallet(UpdatedBlockTip(State, h))

\* the transaction is found in the block at the tip
WalletSyncTransaction ==
    \E t \in DOMAIN mapTxLockCandidates :
        /\ mapTxLockCandidates[t].nConfirmedHeight = -1
        /\ InstallWallet(SyncTransaction(State, t, nCachedBlockHeight))

NextWallet ==
    \/ WalletProcessMessage
    \/ WalletProcessTxLockRequest
    \/ WalletCheckAndRemove
    \/ WalletUpdatedBlockTip
    \/ WalletSyncTransaction

SpecWallet == Init /\ [][NextWallet]_vars

----------------------------------------------------------------------------
(* The threads of the node.  The message handler, the block notifications  *)
(* and the maintenance thread call the engine concurrently.  An operation  *)
(* that takes LOCK(cs_directsend) starts when the mutex is free.  The      *)
(* handlers of messages and of SyncTransaction are followed as one step    *)
(* each; CheckAndRemove is followed loop by loop, holding the mutex from   *)
(* its first loop to its last.  UpdatedBlockTip takes no lock: it is the   *)
(* plain assignment of nCachedBlockHeight and runs whenever its thread     *)
(* does.  A loop of CheckAndRemove reads nCachedBlockHeight once more for  *)
(* every element it visits; the read of a loop is taken as one here.       *)

InstallThread(s) ==
    nSteps < MaxThreadSteps /\ cs_directsend = "none" /\ Assign(s)

ThreadProcessMessage ==
    \E v \in NetVotes \ DOMAIN mapTxLockVotes :
        InstallThread(ProcessMessage(State, v, EnvOk))

ThreadProcessTxLockRequest ==
    \E t \in Tx : InstallThread(ProcessTxLockRequest(State, t, EnvOk))

ThreadSyncTransaction ==
    \E t \in DOMAIN mapTxLockCandidates :
        /\ mapTxLockCandidates[t].nConfirmedHeight = -1
        /\ InstallThread(SyncTransaction(State, t, nCachedBlockHeight))

\* lines 633-635: the masternode list is synced, the mutex is taken
CheckAndRemoveLock ==
    /\ nSteps < MaxThreadSteps
    /\ cs_directsend = "none"
    /\ cs_directsend' = "CheckAndRemove"
    /\ pcCheckAndRemove' = 1
    /\ nSteps' = nSteps + 1
    /\ AssignEngine(State)

\* the five loops of CheckAndRemove, in the order of the code
CheckAndRemoveLoop(s, i, env) ==
    CASE i = 1 -> RemoveExpiredCandidates(s)
      [] i = 2 -> RemoveExpiredVotes(s)
      [] i = 3 -> RemoveTimedOutOrphanVotes(s)
      [] i = 4 -> RemoveFailedVotes(s, env)
      [] OTHER -> RemoveMasternodeOrphanVotes(s)

\* one loop; the mutex is released at the end of the last one
CheckAndRemoveStep ==
    /\ cs_directsend = "CheckAndRemove"
    /\ AssignEngine(CheckAndRemoveLoop(State, pcCheckAndRemove, EnvOk))
    /\ pcCheckAndRemove' = IF pcCheckAndRemove < 5 THEN pcCheckAndRemove + 1 ELSE 0
    /\ cs_directsend' = IF pcCheckAndRemove < 5 THEN "CheckAndRemove" ELSE "none"
    /\ UNCHANGED nSteps

\* lines 841-844: no LOCK(cs_directsend)
ThreadUpdatedBlockTip ==
    /\ nSteps < MaxThreadSteps
    /\ \E h \in (nCachedBlockHeight + 1)..MaxHeight :
          Assign(UpdatedBlockTip(State, h))

NextThreads ==
    \/ ThreadProcessMessage
    \/ ThreadProcessTxLockRequest
    \/ ThreadSyncTransaction
    \/ CheckAndRemoveLock
    \/ CheckAndRemoveStep
    \/ ThreadUpdatedBlockTip

SpecThreads == Init /\ [][NextThreads]_vars

----------------------------------------------------------------------------
(* Properties.  A property of the form "after every operation" is stated   *)
(* on the result of the operation applied to the current state.            *)

\* the votes attached to the candidate of txHash in s, by their hashes
Attached(s, txHash) ==
    {v \in VoteHashes :
        /\ v[1] = txHash
        /\ txHash \in DOMAIN s.mapTxLockCandidates
        /\ HasMasternodeVoted(s.mapTxLockCandidates[txHash], v[2], v[3])}

\* how often the event ev is in the log of s
Count(s, ev) == Cardinality({i \in 1..Len(s.log) : s.log[i] = ev})

I1(s) ==
    \A o \in DOMAIN s.mapLockedOutpoints :
        LET t == s.mapLockedOutpoints[o] IN
        /\ t \in DOMAIN s.mapTxLockCandidates
        /\ o \in DOMAIN s.mapTxLockCandidates[t].mapOutPointLocks
        /\ IsReady(s.mapTxLockCandidates[t].mapOutPointLocks[o])

I3(s) ==
    /\ \A v \in DOMAIN s.mapTxLockVotes :
          v \in Attached(s, v[1]) \/ v \in DOMAIN s.mapTxLockVotesOrphan
    /\ \A v \in DOMAIN s.mapTxLockVotesOrphan : v \notin Attached(s, v[1])

I4(s) ==
    \A t \in DOMAIN s.mapTxLockCandidates :
        \A o \in DOMAIN s.mapTxLockCandidates[t].mapOutPointLocks :
            s.mapTxLockCandidates[t].mapOutPointLocks[o].votes # {}
                => o \in DOMAIN s.mapVotedOutpoints /\ t \in s.mapVotedOutpoints[o]

(* C1: no two distinct transactions that spend a common input are locked   *)
(* at the same time, in every reachable state.                             *)
C1_LockUniqueness ==
    \A t1, t2 \in Tx :
        t1 # t2 /\ VinSet(t1) \cap VinSet(t2) # {}
            => ~(IsLockedDirectSendTransaction(State, t1, EnvOk)
                 /\ IsLockedDirectSendTransaction(State, t2, EnvOk))

\* one transaction is locked while a candidate that spends one of its inputs
\* has its request and a vote on that input
C1_Witness ==
    \E t1, t2 \in Tx :
        /\ t1 # t2
        /\ IsLockedDirectSendTransaction(State, t1, EnvOk)
        /\ t2 \in DOMAIN mapTxLockCandidates
        /\ mapTxLockCandidates[t2].fRequest
        /\ \E o \in VinSet(t1) \cap DOMAIN mapTxLockCandidates[t2].mapOutPointLocks :
              mapTxLockCandidates[t2].mapOutPointLocks[o].votes # {}

(* C2: invariant I1 holds after every operation: a locked outpoint names   *)
(* an existing candidate that has the outpoint among its locks, ready.     *)
C2_I1AfterEveryOperation ==
    /\ I1(State)
    /\ \A t \in Tx, env \in RunEnvs : I1(ProcessTxLockRequest(State, t, env))

(* C3: when a ready candidate is finalized while one of its inputs is      *)
(* locked by another transaction, then after the attempt it is not locked, *)
(* both candidates are removed, the input is not locked and both requests  *)
(* are recorded as rejected.                                               *)
ConflictDropsBoth(r) ==
    \A i \in 1..Len(r.log) :
        r.log[i][1] = "conflict" =>
            LET t2 == r.log[i][2]
                t1 == r.log[i][3]
                o == r.log[i][4]
            IN /\ ~IsLockedDirectSendTransaction(r, t2, EnvOk)
               /\ t1 \notin DOMAIN r.mapTxLockCandidates
               /\ t2 \notin DOMAIN r.mapTxLockCandidates
               /\ o \notin DOMAIN r.mapLockedOutpoints
               /\ {t1, t2} \subseteq r.mapLockRequestRejected

C3_ConflictDropsBoth ==
    \A v \in NetVotes : ConflictDropsBoth(ProcessMessage(State, v, EnvOk))

(* C4: NotifyTransactionLock is emitted at most once during the lifetime   *)
(* of a candidate, whatever votes, duplicate requests and CheckAndRemove   *)
(* runs follow its first finalization.                                     *)
NotifiedAtMostOnce(s) ==
    \A t \in DOMAIN s.mapTxLockCandidates : s.mapTxLockCandidates[t].nNotified <= 1

C4_NotifiedAtMostOnce ==
    /\ NotifiedAtMostOnce(State)
    /\ \A t \in Tx : NotifiedAtMostOnce(ProcessTxLockRequest(State, t, EnvOk))

(* C5: happy path.  The vote v is the last one missing: the candidate of   *)
(* its transaction has its request, is not timed out, no input of it is    *)
(* locked by another transaction and the signer did not vote for another   *)
(* candidate; with v every input is ready.                                 *)
Completes(v) ==
    /\ v \notin DOMAIN mapTxLockVotes
    /\ v[1] \in DOMAIN mapTxLockCandidates
    /\ LET c == mapTxLockCandidates[v[1]] IN
         /\ c.fRequest
         /\ ~CandidateIsTimedOut(c, nTime)
         /\ CandidateAddVoteRet(c, v)
         /\ ~IsAllOutPointsReady(c)
         /\ IsAllOutPointsReady(CandidateAddVote(c, v))
         /\ DOMAIN c.mapOutPointLocks = VinSet(v[1])
    /\ \A o \in VinSet(v[1]) :
          o \in DOMAIN mapLockedOutpoints => mapLockedOutpoints[o] = v[1]
    /\ \A t \in DOMAIN mapTxLockCandidates :
          t # v[1] => ~HasMasternodeVoted(mapTxLockCandidates[t], v[2], v[3])

\* all inputs locked under the hash, one notification, the counter bumped once
LockedAndNotifiedOnce(r, txHash) ==
    /\ \A o \in VinSet(txHash) :
          o \in DOMAIN r.mapLockedOutpoints /\ r.mapLockedOutpoints[o] = txHash
    /\ Count(r, <<"notify", txHash>>) = 1
    /\ r.mapTxLockCandidates[txHash].nNotified = 1
    /\ Count(r, <<"complete", txHash>>) = 1

C6_I3AfterEveryOperation ==
    /\ I3(State)
    /\ \A v \in NetVotes :
          I3(ProcessMessage(State, v, EnvInvalidVote(v[3])))

(* C7: invariant I4 holds after every operation, CheckAndRemove included:  *)
(* a candidate with a vote on an outpoint is in the voted set of that      *)
(* outpoint.                                                               *)
C7_I4AfterEveryOperation ==
    /\ I4(State)
    /\ I4(CheckAndRemove(State, EnvOk))

(* C8: an outpoint lock holds at most one vote of a masternode: AddVote    *)
(* returns false and leaves the lock unchanged when the signer is present, *)
(* for every candidate, outpoint and vote of that signer.                  *)
C8_NoDoubleVote ==
    \A t \in DOMAIN mapTxLockCandidates :
        LET c == mapTxLockCandidates[t] IN
        \A o \in DOMAIN c.mapOutPointLocks :
            \A v \in VoteHashes :
                v[2] = o /\ v[3] \in c.mapOutPointLocks[o].votes =>
                    /\ ~OutPointLockAddVoteRet(c.mapOutPointLocks[o], v)
                    /\ OutPointLockAddVote(c.mapOutPointLocks[o], v) = c.mapOutPointLocks[o]
                    /\ ~CandidateAddVoteRet(c, v)
                    /\ CandidateAddVote(c, v) = c

\* the node's own vote is attached and the voted set of the outpoint was
\* erased: the next vote round of the node reaches AddVote with its signer
\* present
C8_Witness ==
    \E t \in DOMAIN mapTxLockCandidates :
        /\ mapTxLockCandidates[t].fRequest
        /\ \E o \in DOMAIN mapTxLockCandidates[t].mapOutPointLocks :
              /\ ActiveMasternode \in mapTxLockCandidates[t].mapOutPointLocks[o].votes
              /\ o \notin DOMAIN mapVotedOutpoints

(* C9: vote idempotence.  Delivering a vote through the TXLOCKVOTE message  *)
(* a second time changes nothing: the maps and the events emitted after    *)
(* two deliveries are those after one, whatever the vote and whether or    *)
(* not it is valid.                                                        *)
SameEngineState(r1, r2) ==
    /\ r1.mapTxLockCandidates = r2.mapTxLockCandidates
    /\ r1.mapTxLockVotes = r2.mapTxLockVotes
    /\ r1.mapTxLockVotesOrphan = r2.mapTxLockVotesOrphan
    /\ r1.mapVotedOutpoints = r2.mapVotedOutpoints
    /\ r1.mapLockedOutpoints = r2.mapLockedOutpoints
    /\ r1.mapLockRequestAccepted = r2.mapLockRequestAccepted
    /\ r1.mapLockRequestRejected = r2.mapLockRequestRejected
    /\ r1.mapMasternodeOrphanVotes = r2.mapMasternodeOrphanVotes
    /\ r1.log = r2.log

DeliveryEnvs == {EnvOk, EnvDangling, EnvNoWallet, EnvNoSpork2, EnvNotSynced}

C9_VoteIdempotence ==
    \A v \in NetVotes :
        /\ \A env \in DeliveryEnvs :
              Bind(ProcessMessage(State, v, env), LAMBDA r :
                  SameEngineState(r, ProcessMessage(r, v, env)))
        /\ Bind(ProcessMessage(State, v, EnvInvalidVote(v[3])), LAMBDA r :
                  SameEngineState(r, ProcessMessage(r, v, EnvInvalidVote(v[3]))))

\* the first delivery of a vote is about to complete a lock that holds the
\* vote of another masternode of the network
C9_Witness ==
    \E v \in NetVotes :
        /\ v \notin DOMAIN mapTxLockVotes
        /\ Count(ProcessMessage(State, v, EnvOk), <<"notify", v[1]>>) = 1
        /\ \E w \in DOMAIN mapTxLockVotes : w[1] = v[1] /\ w[3] # ActiveMasternode

(* C10: orphan adoption.  When the request of t arrives while the          *)
(* placeholder candidate of t is not timed out, the votes received for t   *)
(* are attached to the candidate, none of them is an orphan vote any more, *)
(* and a candidate that is ready is locked and notified.                   *)
Received(t) == {v \in DOMAIN mapTxLockVotes : v[1] = t /\ v[3] # ActiveMasternode}

C10_OrphanAdoption ==
    \A t \in Tx :
        /\ t \in DOMAIN mapTxLockCandidates
        /\ ~mapTxLockCandidates[t].fRequest
        /\ ~CandidateIsTimedOut(mapTxLockCandidates[t], nTime)
        => LET r == ProcessTxLockRequest(State, t, EnvOk) IN
             /\ t \in DOMAIN r.mapTxLockCandidates
             /\ Received(t) \subseteq Attached(r, t)
             /\ \A v \in Attached(r, t) : v \in Received(t) \/ v[3] = ActiveMasternode
             /\ \A v \in DOMAIN r.mapTxLockVotesOrphan : v[1] # t
             /\ IsAllOutPointsReady(r.mapTxLockCandidates[t])
                    => /\ IsLockedDirectSendTransaction(r, t, EnvOk)
                       /\ Count(r, <<"notify", t>>) = 1

(* C11: equivocation visibility.  The vote w of a signer on an outpoint is *)
(* stored and attached to its candidate, and the vote v of the same signer *)
(* on the same outpoint for another transaction is delivered to a          *)
(* candidate that has its request, is not timed out and does not become    *)
(* ready with it: then both votes are stored and attached, the outpoint is *)
(* marked attacked in both candidates and the signer is banned exactly     *)
(* once.                                                                   *)
Equivocates(v, w) ==
    /\ w[1] # v[1] /\ w[2] = v[2] /\ w[3] = v[3]
    /\ w \in Attached(State, w[1])
    /\ w \in DOMAIN mapTxLockVotes
    /\ v \notin DOMAIN mapTxLockVotes
    /\ v[1] \in DOMAIN mapTxLockCandidates
    /\ mapTxLockCandidates[v[1]].fRequest
    /\ ~CandidateIsTimedOut(mapTxLockCandidates[v[1]], nTime)
    /\ v[2] \in DOMAIN mapTxLockCandidates[v[1]].mapOutPointLocks
    /\ ~IsAllOutPointsReady(CandidateAddVote(mapTxLockCandidates[v[1]], v))

EquivocationVisible(r, v, w) ==
    /\ {v, w} \subseteq DOMAIN r.mapTxLockVotes
    /\ v \in Attached(r, v[1])
    /\ w \in Attached(r, w[1])
    /\ r.mapTxLockCandidates[v[1]].mapOutPointLocks[v[2]].fAttacked
    /\ r.mapTxLockCandidates[w[1]].mapOutPointLocks[w[2]].fAttacked
    /\ Count(r, <<"ban", v[3]>>) = 1

C11_EquivocationVisibility ==
    \A v \in NetVotes, w \in VoteHashes :
        Equivocates(v, w)
            => EquivocationVisible(ProcessMessage(State, v, EnvWallet), v, w)

(* C12: a candidate with an outpoint marked attacked is not finalized: no  *)
(* later vote or request locks its inputs or emits the notification for    *)
(* it.                                                                     *)
IsAttacked(s, t) ==
    /\ t \in DOMAIN s.mapTxLockCandidates
    /\ \E o \in DOMAIN s.mapTxLockCandidates[t].mapOutPointLocks :
          s.mapTxLockCandidates[t].mapOutPointLocks[o].fAttacked

NotFinalized(r, t) ==
    /\ Count(r, <<"notify", t>>) = 0
    /\ \A o \in DOMAIN r.mapLockedOutpoints :
          r.mapLockedOutpoints[o] = t
              => o \in DOMAIN mapLockedOutpoints /\ mapLockedOutpoints[o] = t

C12_AttackedNeverFinalized ==
    \A t \in Tx :
        IsAttacked(State, t) =>
            /\ \A v \in NetVotes : NotFinalized(ProcessMessage(State, v, EnvOk), t)
            /\ \A u \in Tx : NotFinalized(ProcessTxLockRequest(State, u, EnvOk), t)

(* C13: the node's own masternode has a vote on an outpoint in at most one *)
(* existing candidate, in every reachable state.                           *)
OwnVoteHolders(o) ==
    {t \in DOMAIN mapTxLockCandidates :
        HasMasternodeVoted(mapTxLockCandidates[t], o, ActiveMasternode)}

C13_NoOwnDoubleVote ==
    \A o \in OutPoints : Cardinality(OwnVoteHolders(o)) <= 1

(* C14: expiry.  A candidate has a confirmed height c and a block takes    *)
(* the tip to h with h - c > KEEP_LOCK: after the tip update and the       *)
(* CheckAndRemove run that follows it the candidate, the locks of its      *)
(* inputs and every stored vote for it are gone, and a vote for the same   *)
(* transaction is then handled as a vote for an unknown transaction.       *)
HandledAsUnknown(r, v) ==
    Bind(ProcessMessage(r, v, EnvOk), LAMBDA r2 :
        /\ v \in DOMAIN r2.mapTxLockVotesOrphan
        /\ v[1] \in DOMAIN r2.mapTxLockCandidates
        /\ ~r2.mapTxLockCandidates[v[1]].fRequest)

Evicted(r, t) ==
    /\ t \notin DOMAIN r.mapTxLockCandidates
    /\ \A o \in DOMAIN r.mapLockedOutpoints : r.mapLockedOutpoints[o] # t
    /\ \A v \in DOMAIN r.mapTxLockVotes : v[1] # t
    /\ \A v \in NetVotes : v[1] = t => HandledAsUnknown(r, v)

C14_Expiry ==
    \A t \in DOMAIN mapTxLockCandidates :
        \A h \in (nCachedBlockHeight + 1)..MaxHeight :
            /\ mapTxLockCandidates[t].nConfirmedHeight # -1
            /\ h - mapTxLockCandidates[t].nConfirmedHeight > KEEP_LOCK
            => Evicted(CheckAndRemove(UpdatedBlockTip(State, h), EnvOk), t)

(* C15: orphan vote rate.  v is a new orphan vote: no request of its       *)
(* transaction is known and its signer has an entry in                     *)
(* mapMasternodeOrphanVotes that lies in the future.                       *)
NewOrphanVote(v) ==
    /\ v \notin DOMAIN mapTxLockVotes
    /\ v \notin DOMAIN mapTxLockVotesOrphan
    /\ v[1] \notin mapLockRequestAccepted \cup mapLockRequestRejected
    /\ v[1] \in DOMAIN mapTxLockCandidates => ~mapTxLockCandidates[v[1]].fRequest

InOrphanWindow(mn) ==
    mn \in DOMAIN mapMasternodeOrphanVotes /\ mapMasternodeOrphanVotes[mn] > nTime

\* the entry of mn is above the mean of the entries
AboveAverage(mn) ==
    mapMasternodeOrphanVotes[mn] * Cardinality(DOMAIN mapMasternodeOrphanVotes)
        > SumOf(mapMasternodeOrphanVotes, DOMAIN mapMasternodeOrphanVotes)

\* as stated: every further orphan vote of the signer within the window is
\* spam
C15_OrphanSpamAlways ==
    \A v \in NetVotes :
        NewOrphanVote(v) /\ InOrphanWindow(v[3])
            => ~ProcessMessage(State, v, EnvOk).ret

(* C15, amended: the first orphan vote of a signer is accepted and sets    *)
(* its entry; a further one within the window is spam (false, the entry    *)
(* unchanged) exactly when the entry of the signer is above the average of *)
(* the entries of all tracked signers; otherwise, so whenever the signer   *)
(* is the only one tracked, it is accepted and the entry is refreshed.     *)
(* The vote is stored as an orphan vote in both cases.                     *)
C15_OrphanSpam ==
    \A v \in NetVotes :
        NewOrphanVote(v) =>
            Bind(ProcessMessage(State, v, EnvOk), LAMBDA r :
                /\ v \in DOMAIN r.mapTxLockVotesOrphan
                /\ IF InOrphanWindow(v[3]) /\ AboveAverage(v[3])
                   THEN /\ ~r.ret
                        /\ r.mapMasternodeOrphanVotes = mapMasternodeOrphanVotes
                   ELSE /\ r.ret
                        /\ r.mapMasternodeOrphanVotes[v[3]] = nTime + ORPHAN_EXPIRE)

\* a signer within its window whose next orphan vote is spam
C15_Witness ==
    \E v \in NetVotes :
        /\ NewOrphanVote(v) /\ InOrphanWindow(v[3]) /\ AboveAverage(v[3])
        /\ ~ProcessMessage(State, v, EnvOk).ret

(* C16: readiness is monotone.                                             *)
ReadyLocks(s) ==
    {<<t, o>> \in Tx \X OutPoints :
        /\ t \in DOMAIN s.mapTxLockCandidates
        /\ o \in DOMAIN s.mapTxLockCandidates[t].mapOutPointLocks
        /\ IsReady(s.mapTxLockCandidates[t].mapOutPointLocks[o])}

\* r.freed are the candidates that the operation erased as expired
StaysReady(r) ==
    \A p \in ReadyLocks(State) : p \in ReadyLocks(r) \/ p[1] \in DOMAIN r.freed

(* C16: whatever operation runs next, a vote, a request, CheckAndRemove,   *)
(* SyncTransaction or a new tip, every outpoint lock that is ready before  *)
(* it is ready after it, unless the operation erased its candidate as      *)
(* expired.                                                                *)
C16_ReadinessMonotone ==
    /\ \A v \in NetVotes :
          \A env \in {EnvOk, EnvDangling, EnvInvalidVote(v[3])} :
              StaysReady(ProcessMessage(State, v, env))
    /\ \A t \in Tx, env \in RunEnvs :
          StaysReady(ProcessTxLockRequest(State, t, env))
    /\ StaysReady(CheckAndRemove(State, EnvOk))
    /\ \A t \in Tx, h \in 0..MaxHeight : StaysReady(SyncTransaction(State, t, h))
    /\ \A h \in 0..MaxHeight : StaysReady(UpdatedBlockTip(State, h))

\* a live candidate with a ready outpoint lock that an equivocation marked
\* as attacked, and one with a ready lock that took a further vote
C16_Witness ==
    /\ \E p \in ReadyLocks(State) :
          mapTxLockCandidates[p[1]].mapOutPointLocks[p[2]].fAttacked
    /\ \E p \in ReadyLocks(State) :
          Cardinality(mapTxLockCandidates[p[1]].mapOutPointLocks[p[2]].votes)
              > SIGNATURES_REQUIRED

(* C17: a vote that fails validation is rejected with false and leaves no  *)
(* trace: it is not in mapTxLockVotes afterwards, and the candidates, the  *)
(* orphan votes and the voted outpoints are as before.                     *)
RejectedWithoutTrace(r, v) ==
    /\ ~r.ret
    /\ v \notin DOMAIN r.mapTxLockVotes
    /\ r.mapTxLockCandidates = mapTxLockCandidates
    /\ r.mapTxLockVotesOrphan = mapTxLockVotesOrphan
    /\ r.mapVotedOutpoints = mapVotedOutpoints

C17_InvalidVoteRejected ==
    \A v \in NetVotes \ DOMAIN mapTxLockVotes :
        RejectedWithoutTrace(ProcessMessage(State, v, EnvInvalidVote(v[3])), v)

(* C18: a request that is not valid is answered with false, creates or     *)
(* modifies no candidate, and is recorded in mapLockRequestRejected.       *)
C18_InvalidRequestRecorded ==
    \A t \in Tx :
        Bind(ProcessTxLockRequest(State, t, EnvInvalidRequest), LAMBDA r :
            /\ ~r.ret
            /\ r.mapTxLockCandidates = mapTxLockCandidates
            /\ t \in r.mapLockRequestRejected)

(* C19: on a node that is no masternode, with no orphan votes pending, a   *)
(* request whose candidate exists with the request attached is answered    *)
(* with true, leaves the candidates, the votes, the voted outpoints and    *)
(* the locked outpoints as they were, and notifies nothing.                *)
DuplicateIsNoOp(r, t) ==
    /\ r.ret
    /\ r.mapTxLockCandidates = mapTxLockCandidates
    /\ r.mapTxLockVotes = mapTxLockVotes
    /\ r.mapVotedOutpoints = mapVotedOutpoints
    /\ r.mapLockedOutpoints = mapLockedOutpoints
    /\ Count(r, <<"notify", t>>) = 0

C19_DuplicateRequestIdempotent ==
    \A t \in DOMAIN mapTxLockCandidates :
        (mapTxLockCandidates[t].fRequest /\ DOMAIN mapTxLockVotesOrphan = {})
            => DuplicateIsNoOp(ProcessTxLockRequest(State, t, EnvWallet), t)

(* C20: the engine's state is read and written only under cs_directsend:   *)
(* while an operation holds the mutex from one step to the next, no other  *)
(* thread changes the cached tip height it reads.                          *)
C20_TipWrittenUnderLock ==
    [][(cs_directsend # "none" /\ cs_directsend' = cs_directsend)
            => nCachedBlockHeight' = nCachedBlockHeight]_vars

(* C21: relay of ingested votes.                                           *)
\* every event b of the log has an event a before it
Precedes(log, a, b) ==
    \A j \in 1..Len(log) : log[j] = b => \E i \in 1..(j - 1) : log[i] = a

\* the path a delivered vote takes
OnTimedOutPath(v) ==
    /\ v[1] \in DOMAIN mapTxLockCandidates
    /\ mapTxLockCandidates[v[1]].fRequest
    /\ CandidateIsTimedOut(mapTxLockCandidates[v[1]], nTime)
OnAttachedPath(v) ==
    /\ v[1] \in DOMAIN mapTxLockCandidates
    /\ mapTxLockCandidates[v[1]].fRequest
    /\ ~CandidateIsTimedOut(mapTxLockCandidates[v[1]], nTime)

(* C21: a delivered vote that passes validation is relayed, whether its    *)
(* candidate is unknown, timed out or live, and the relay comes before the *)
(* vote is attached; a vote that fails validation is not relayed.          *)
C21_RelayBeforeAttach ==
    \A v \in NetVotes \ DOMAIN mapTxLockVotes :
        /\ \A env \in RunEnvs :
              Bind(ProcessMessage(State, v, env), LAMBDA r :
                  /\ Count(r, <<"relay", v>>) >= 1
                  /\ Precedes(r.log, <<"relay", v>>, <<"attach", v>>))
        /\ Count(ProcessMessage(State, v, EnvInvalidVote(v[3])), <<"relay", v>>) = 0

\* a vote for a timed-out candidate and a vote that is attached are both
\* about to arrive, and there are orphan votes
C21_Witness ==
    /\ \E v \in NetVotes \ DOMAIN mapTxLockVotes : OnTimedOutPath(v)
    /\ \E v \in NetVotes \ DOMAIN mapTxLockVotes :
          /\ OnAttachedPath(v)
          /\ Count(ProcessMessage(State, v, EnvOk), <<"attach", v>>) = 1
    /\ DOMAIN mapTxLockVotesOrphan # {}

\* the vote is dropped: no candidate, voted outpoint or lock changes, nobody
\* is banned and nothing is notified
Dropped(r, v) ==
    /\ ~r.ret
    /\ r.mapTxLockCandidates = mapTxLockCandidates
    /\ r.mapVotedOutpoints = mapVotedOutpoints
    /\ r.mapLockedOutpoints = mapLockedOutpoints
    /\ Count(r, <<"attach", v>>) = 0
    /\ Count(r, <<"ban", v[3]>>) = 0
    /\ Count(r, <<"notify", v[1]>>) = 0

(* C22: a valid vote for a candidate that has its request and is timed out *)
(* is dropped: the result is false, the vote is not attached, the voted    *)
(* outpoints are as before, no outpoint is marked attacked, no masternode  *)
(* is banned and the candidate is not finalized.                           *)
C22_TimedOutVoteDropped ==
    \A v \in NetVotes \ DOMAIN mapTxLockVotes :
        OnTimedOutPath(v) =>
            \A env \in RunEnvs : Dropped(ProcessMessage(State, v, env), v)

\* a vote arrives for a timed-out candidate whose signer has a vote on the
\* same outpoint attached to another candidate
C22_Witness ==
    \E v \in NetVotes \ DOMAIN mapTxLockVotes :
        /\ OnTimedOutPath(v)
        /\ v[2] \in DOMAIN mapTxLockCandidates[v[1]].mapOutPointLocks
        /\ \E w \in DOMAIN mapTxLockVotes :
              /\ w[1] # v[1] /\ w[2] = v[2] /\ w[3] = v[3]
              /\ w \in Attached(State, w[1])

\* the candidate of t was created by an orphan vote, has no request and is
\* timed out
TimedOutPlaceholder(t) ==
    /\ t \in DOMAIN mapTxLockCandidates
    /\ ~mapTxLockCandidates[t].fRequest
    /\ CandidateIsTimedOut(mapTxLockCandidates[t], nTime)

RequestRefused(r, t, env) ==
    /\ ~r.ret
    /\ r.mapTxLockVotes = mapTxLockVotes
    /\ r.mapTxLockVotesOrphan = mapTxLockVotesOrphan
    /\ r.mapVotedOutpoints = mapVotedOutpoints
    /\ r.mapLockedOutpoints = mapLockedOutpoints
    /\ Attached(r, t) = {}
    /\ r.log = <<>>
    /\ ~IsLockedDirectSendTransaction(r, t, env)

(* C23: a valid request for a timed-out placeholder is answered with       *)
(* false: the node casts no vote of its own, no orphan vote is adopted,    *)
(* no outpoint is locked and the transaction is not locked by the call.    *)
C23_TimedOutPlaceholder ==
    \A t \in Tx :
        TimedOutPlaceholder(t) =>
            \A env \in RunEnvs :
                RequestRefused(ProcessTxLockRequest(State, t, env), t, env)

\* a timed-out placeholder whose orphan votes would complete it
C23_Witness ==
    \E t \in Tx :
        /\ TimedOutPlaceholder(t)
        /\ IsEnoughOrphanVotesForTx(State, t)
        /\ \A o \in VinSet(t) : o \notin DOMAIN mapLockedOutpoints

(* C24: the survey of conflicts at the start of ProcessTxLockRequest.      *)
\* an input of t is locked by another transaction, or another transaction
\* has votes on it
HasConflict(t) ==
    \E o \in VinSet(t) :
        \/ o \in DOMAIN mapLockedOutpoints /\ mapLockedOutpoints[o] # t
        \/ o \in DOMAIN mapVotedOutpoints /\ mapVotedOutpoints[o] \ {t} # {}

\* t has no candidate yet, or a placeholder that is not timed out
IsNewRequest(t) ==
    t \in DOMAIN mapTxLockCandidates =>
        /\ ~mapTxLockCandidates[t].fRequest
        /\ ~CandidateIsTimedOut(mapTxLockCandidates[t], nTime)

OrphanVotesOf(t) == {v \in DOMAIN mapTxLockVotesOrphan : v[1] = t}

\* the candidate of t is there with all its inputs, and the locks and the
\* other candidates are as before
CreatedBesideConflict(r, t) ==
    /\ r.ret
    /\ t \in DOMAIN r.mapTxLockCandidates
    /\ r.mapTxLockCandidates[t].fRequest
    /\ DOMAIN r.mapTxLockCandidates[t].mapOutPointLocks = VinSet(t)
    /\ r.mapLockedOutpoints = mapLockedOutpoints
    /\ \A u \in (DOMAIN mapTxLockCandidates) \ {t} :
          u \in DOMAIN r.mapTxLockCandidates
              /\ r.mapTxLockCandidates[u] = mapTxLockCandidates[u]

\* as stated: whatever else the request meets
C24_SurveyInformationalAlways ==
    \A t \in Tx :
        (IsNewRequest(t) /\ HasConflict(t)) =>
            \A env \in RunEnvs :
                CreatedBesideConflict(ProcessTxLockRequest(State, t, env), t)

(* C24, amended: a valid request with an input that is locked by another   *)
(* transaction, or voted for another transaction, and with no orphan vote  *)
(* buffered for it, creates its candidate with all its inputs and returns  *)
(* true; the locks and the other candidates are as before.                 *)
C24_SurveyInformational ==
    \A t \in Tx :
        (IsNewRequest(t) /\ HasConflict(t) /\ OrphanVotesOf(t) = {}) =>
            \A env \in RunEnvs :
                CreatedBesideConflict(ProcessTxLockRequest(State, t, env), t)

\* a new request with an input that is locked by another transaction
C24_Witness ==
    \E t \in Tx :
        /\ IsNewRequest(t) /\ OrphanVotesOf(t) = {}
        /\ \E o \in VinSet(t) :
              o \in DOMAIN mapLockedOutpoints /\ mapLockedOutpoints[o] # t

(* C25: finalization under a racing spend.  With the vote v every input of *)
(* the candidate of its transaction is ready.                              *)
BecomesReady(v) ==
    /\ v \notin DOMAIN mapTxLockVotes
    /\ v[1] \in DOMAIN mapTxLockCandidates
    /\ LET c == mapTxLockCandidates[v[1]] IN
         /\ c.fRequest
         /\ ~CandidateIsTimedOut(c, nTime)
         /\ CandidateAddVoteRet(c, v)
         /\ ~IsAllOutPointsReady(c)
         /\ IsAllOutPointsReady(CandidateAddVote(c, v))
         /\ DOMAIN c.mapOutPointLocks = VinSet(v[1])

NoLockOfAnother(t) ==
    \A o \in VinSet(t) : o \in DOMAIN mapLockedOutpoints => mapLockedOutpoints[o] = t

\* a spend of an input of t in the mempool, or a coin missing from the UTXO
\* set
RacingSpends(t) == {EnvMempool(o) : o \in VinSet(t)} \cup {EnvSpent}

\* nothing is locked or notified; the candidate and its votes are in place
NotLockedLeftInPlace(r, v) ==
    /\ r.mapLockedOutpoints = mapLockedOutpoints
    /\ Count(r, <<"notify", v[1]>>) = 0
    /\ v[1] \in DOMAIN r.mapTxLockCandidates
    /\ r.mapTxLockCandidates[v[1]].nConfirmedHeight
          = mapTxLockCandidates[v[1]].nConfirmedHeight
    /\ Attached(r, v[1]) = Attached(State, v[1]) \cup {v}
    /\ DOMAIN r.mapTxLockVotes = (DOMAIN mapTxLockVotes) \cup {v}

\* as stated: whatever else holds of the inputs
C25_RacingSpendAlways ==
    \A v \in NetVotes :
        BecomesReady(v) =>
            \A env \in RacingSpends(v[1]) :
                NotLockedLeftInPlace(ProcessMessage(State, v, env), v)

(* C25, amended: when every input of a candidate is ready, no input of it  *)
(* is locked by another transaction, and the mempool holds another spend   *)
(* of one of its inputs, or the transaction is in no block and a coin of   *)
(* it is no longer in the UTXO set, then finalization adds no entry to     *)
(* mapLockedOutpoints, notifies nothing and leaves the candidate and its   *)
(* votes in place.                                                         *)
C25_RacingSpend ==
    \A v \in NetVotes :
        (BecomesReady(v) /\ NoLockOfAnother(v[1])) =>
            \A env \in RacingSpends(v[1]) :
                NotLockedLeftInPlace(ProcessMessage(State, v, env), v)

\* the last vote of a transaction with two inputs is about to arrive and no
\* input is locked by another transaction
C25_Witness ==
    \E v \in NetVotes :
        BecomesReady(v) /\ NoLockOfAnother(v[1]) /\ Len(Vin(v[1])) = 2

(* C26: when every input of a candidate is ready, no input is locked by    *)
(* another transaction or spent in the mempool, and the transaction is in  *)
(* a block, the conflicts are resolved without the coins being looked up   *)
(* (which the block has spent), and every input of the candidate is in     *)
(* mapLockedOutpoints under its hash.                                      *)
C26_InBlockLocks ==
    \A v \in NetVotes :
        (BecomesReady(v) /\ NoLockOfAnother(v[1])) =>
            Bind(ProcessMessage(State, v, EnvInBlock), LAMBDA r :
                /\ \A o \in VinSet(v[1]) :
                      /\ o \in DOMAIN r.mapLockedOutpoints
                      /\ r.mapLockedOutpoints[o] = v[1]
                /\ IsLockedDirectSendTransaction(r, v[1], EnvInBlock))

\* the last vote arrives for a candidate whose transaction SyncTransaction
\* has found in a block
C26_Witness ==
    \E v \in NetVotes :
        /\ BecomesReady(v) /\ NoLockOfAnother(v[1])
        /\ mapTxLockCandidates[v[1]].nConfirmedHeight # -1

\* the stored votes of t that are attached to its candidate or buffered as
\* orphan votes
SyncedVotes(r, t) ==
    {v \in DOMAIN r.mapTxLockVotes :
        v \in Attached(r, t) \/ (v[1] = t /\ v \in DOMAIN r.mapTxLockVotesOrphan)}

Synced(r, t, h) ==
    /\ r.mapTxLockCandidates[t].nConfirmedHeight = h
    /\ \A v \in SyncedVotes(r, t) : r.mapTxLockVotes[v].nConfirmedHeight = h
    /\ \A u \in (DOMAIN mapTxLockCandidates) \ {t} :
          u \in DOMAIN r.mapTxLockCandidates
              /\ r.mapTxLockCandidates[u] = mapTxLockCandidates[u]
    /\ DOMAIN r.mapTxLockCandidates = DOMAIN mapTxLockCandidates
    /\ \A v \in (DOMAIN mapTxLockVotes) \cup DOMAIN r.mapTxLockVotes :
          v[1] # t => /\ v \in DOMAIN mapTxLockVotes
                      /\ v \in DOMAIN r.mapTxLockVotes
                      /\ r.mapTxLockVotes[v] = mapTxLockVotes[v]

(* C27: after SyncTransaction for a transaction with a candidate and the   *)
(* height h (-1: not in a block), the candidate has the confirmed height   *)
(* h, and so has every stored vote that is attached to the candidate or    *)
(* buffered as an orphan vote of the transaction; the candidates and the   *)
(* votes of the other transactions are as before.                          *)
C27_SyncTransaction ==
    \A t \in DOMAIN mapTxLockCandidates : \A h \in (-1)..MaxHeight :
        Synced(SyncTransaction(State, t, h), t, h)

\* a candidate with stored attached votes, and a candidate with a buffered
\* orphan vote
C27_Witness ==
    /\ \E t \in DOMAIN mapTxLockCandidates :
          Attached(State, t) \cap DOMAIN mapTxLockVotes # {}
    /\ \E t \in DOMAIN mapTxLockCandidates : OrphanVotesOf(t) # {}

\* the vote with hash v is expired at the tip: by the height SyncTransaction
\* gave it in mapTxLockVotes, or by the height of its orphan copy
ExpiredAtTip(v) ==
    \/ v \in DOMAIN mapTxLockVotes
          /\ VoteIsExpired(mapTxLockVotes[v], nCachedBlockHeight)
    \/ v \in DOMAIN mapTxLockVotesOrphan
          /\ VoteIsExpired(mapTxLockVotesOrphan[v], nCachedBlockHeight)

TimedOutOrphan(v) ==
    v \in DOMAIN mapTxLockVotesOrphan
        /\ VoteIsTimedOut(mapTxLockVotesOrphan[v], nTime)

Collected(r) ==
    /\ \A v \in VoteHashes :
          TimedOutOrphan(v) =>
              v \notin DOMAIN r.mapTxLockVotesOrphan /\ v \notin DOMAIN r.mapTxLockVotes
    /\ \A v \in VoteHashes :
          ExpiredAtTip(v) =>
              v \notin DOMAIN r.mapTxLockVotes /\ v \notin DOMAIN r.mapTxLockVotesOrphan
    /\ \A m \in DOMAIN r.mapMasternodeOrphanVotes :
          ~(r.mapMasternodeOrphanVotes[m] < nTime)

(* C28: after CheckAndRemove no timed-out orphan vote is left in           *)
(* mapTxLockVotesOrphan or mapTxLockVotes, no vote that is expired at the  *)
(* tip is left in mapTxLockVotes or mapTxLockVotesOrphan, and no entry of  *)
(* mapMasternodeOrphanVotes lies in the past.                              *)
C28_CollectedAfterCheckAndRemove == Collected(CheckAndRemove(State, EnvOk))

\* no AssertLockHeld of the call that gave r found its mutex not held
NoAssertionFailed(r) ==
    \A i \in 1..Len(r.log) : r.log[i][1] # "AssertLockHeld"

(* C29: the lock-held assertions never fail: whatever the state, with or   *)
(* without a wallet, a TXLOCKVOTE message and a lock request (which go     *)
(* through ProcessOrphanTxLockVotes and TryToFinalizeLockCandidate) reach  *)
(* ProcessTxLockVote and UpdateLockedTransaction with cs_main, cs_wallet   *)
(* (when there is a wallet) and cs_directsend held.                        *)
C29_LocksHeldAtAssertions ==
    \A env \in {EnvOk, EnvDangling, EnvNoWallet} :
        /\ \A v \in NetVotes : NoAssertionFailed(ProcessMessage(State, v, env))
        /\ \A t \in Tx : NoAssertionFailed(ProcessTxLockRequest(State, t, env))

\* the candidates of the state that r no longer has were erased as expired
\* at the tip of r (r.freed are the objects as they were when erased), and
\* so was every other candidate erased on the way
RemovedOnlyWhenExpired(r) ==
    /\ \A t \in (DOMAIN mapTxLockCandidates) \ DOMAIN r.mapTxLockCandidates :
          t \in DOMAIN r.freed
    /\ \A t \in DOMAIN r.freed :
          CandidateIsExpired(r.freed[t], r.nCachedBlockHeight)

\* the candidates without a confirmed height are in r as they were
Unconfirmed == {t \in DOMAIN mapTxLockCandidates :
                    mapTxLockCandidates[t].nConfirmedHeight = -1}
UnconfirmedStay(r) ==
    \A t \in Unconfirmed :
        /\ t \in DOMAIN r.mapTxLockCandidates
        /\ r.mapTxLockCandidates[t] = mapTxLockCandidates[t]

(* C30: whatever the state, an operation removes a candidate only when the *)
(* candidate is expired at the tip (a lost conflict resolution first gives *)
(* it the height 0); and CheckAndRemove leaves every candidate whose       *)
(* confirmed height is -1 as it is, at whatever later time and whatever    *)
(* tip it runs.                                                            *)
C30_RemovedOnlyWhenExpired ==
    /\ \A env \in RunEnvs :
          /\ \A v \in NetVotes : RemovedOnlyWhenExpired(ProcessMessage(State, v, env))
          /\ \A t \in Tx : RemovedOnlyWhenExpired(ProcessTxLockRequest(State, t, env))
    /\ \A t \in Tx : \A h \in (-1)..MaxHeight :
          RemovedOnlyWhenExpired(SyncTransaction(State, t, h))
    /\ \A h \in 0..MaxHeight : \A now \in nTime..MaxTime :
          Bind(CheckAndRemove([UpdatedBlockTip(State, h) EXCEPT !.nTime = now], EnvOk),
               LAMBDA r : RemovedOnlyWhenExpired(r) /\ UnconfirmedStay(r))

\* a candidate without a confirmed height that is timed out, at a tip past
\* the blocks a lock is kept, beside a candidate that is expired and removed
C30_Witness ==
    /\ nCachedBlockHeight > KEEP_LOCK
    /\ \E t \in Unconfirmed : CandidateIsTimedOut(mapTxLockCandidates[t], nTime)
    /\ \E t \in DOMAIN mapTxLockCandidates :
          /\ CandidateIsExpired(mapTxLockCandidates[t], nCachedBlockHeight)
          /\ t \notin DOMAIN CheckAndRemove(State, EnvOk).mapTxLockCandidates

\* every hash listed in mapVotedOutpoints[o] of r is the hash of a candidate
\* of r that has o among its outpoint locks
VotedRefersToCandidates(r) ==
    \A o \in DOMAIN r.mapVotedOutpoints : \A t \in r.mapVotedOutpoints[o] :
        /\ t \in DOMAIN r.mapTxLockCandidates
        /\ o \in DOMAIN r.mapTxLockCandidates[t].mapOutPointLocks

(* C31: in every state the node reaches, also by the next valid vote       *)
(* message (whatever transaction, outpoint and masternode it names), every *)
(* hash listed in mapVotedOutpoints[o] is the hash of an existing          *)
(* candidate that has o among its outpoint locks, so that the lookup of    *)
(* Vote finds a candidate.                                                 *)
C31_VotedRefersToCandidates ==
    /\ VotedRefersToCandidates(State)
    /\ \A v \in VoteHashes \ DOMAIN mapTxLockVotes :
          VotedRefersToCandidates(ProcessMessage(State, v, EnvOk))

\* candidate t has its request and every input of it is recorded in
\* mapLockedOutpoints under t
InputsLockedIn(cands, locked, t) ==
    /\ t \in DOMAIN cands
    /\ DOMAIN cands[t].mapOutPointLocks # {}
    /\ \A o \in DOMAIN cands[t].mapOutPointLocks :
          o \in DOMAIN locked /\ locked[o] = t

(* C32: a locked transaction stays locked until its own candidate is       *)
(* evicted: when every input of candidate t is recorded under t in         *)
(* mapLockedOutpoints, a step that leaves candidate t in                   *)
(* mapTxLockCandidates leaves every one of these entries in place, also    *)
(* when it evicts another candidate that shares an input with t.           *)
C32_LockedUntilEvicted ==
    [][\A t \in Tx :
          (InputsLockedIn(mapTxLockCandidates, mapLockedOutpoints, t)
              /\ t \in DOMAIN mapTxLockCandidates')
          => InputsLockedIn(mapTxLockCandidates', mapLockedOutpoints', t)]_vars

\* the buffered orphan votes of the transactions other than t whose request
\* has not arrived
WaitingOrphansBeside(t) ==
    {v \in DOMAIN mapTxLockVotesOrphan :
        /\ v[1] # t
        /\ \/ v[1] \notin DOMAIN mapTxLockCandidates
           \/ ~mapTxLockCandidates[v[1]].fRequest}

(* C33: an orphan vote leaves mapTxLockVotesOrphan only by being attached  *)
(* to its candidate or by CheckAndRemove: the request of a transaction t   *)
(* leaves in mapTxLockVotesOrphan every buffered vote for another          *)
(* transaction whose request has not arrived.                              *)
C33_OtherOrphansKept ==
    \A t \in Tx :
        WaitingOrphansBeside(t)
            \subseteq DOMAIN ProcessTxLockRequest(State, t, EnvOk).mapTxLockVotesOrphan

\* every vote of mapTxLockVotesOrphan is stored in mapTxLockVotes under the
\* same hash, as a vote for the same transaction
OrphansAreStored(r) ==
    \A v \in DOMAIN r.mapTxLockVotesOrphan :
        /\ v \in DOMAIN r.mapTxLockVotes
        /\ r.mapTxLockVotes[v].txHash = r.mapTxLockVotesOrphan[v].txHash

\* no vote of mapTxLockVotes is one that operator[] default-constructed
NoDefaultVote(r) ==
    \A v \in DOMAIN r.mapTxLockVotes : r.mapTxLockVotes[v].txHash = v[1]

(* C34: in every reachable state every vote of mapTxLockVotesOrphan is     *)
(* also in mapTxLockVotes, with the same identity; so the indexed update   *)
(* of SyncTransaction never makes a default-constructed entry.             *)
C34_OrphansAreStored ==
    /\ OrphansAreStored(State)
    /\ \A t \in Tx : \A h \in (-1)..MaxHeight :
          NoDefaultVote(SyncTransaction(State, t, h))

\* the candidates that have their request and are timed out
TimedOutCandidates ==
    {t \in DOMAIN mapTxLockCandidates :
        /\ mapTxLockCandidates[t].fRequest
        /\ CandidateIsTimedOut(mapTxLockCandidates[t], nTime)}

\* no timed-out candidate has in r a vote that it does not have now
NoLateVote(r) ==
    \A t \in TimedOutCandidates : Attached(r, t) \subseteq Attached(State, t)

(* C35: once a candidate is timed out the votes attached to it never grow: *)
(* no vote of a peer, no reprocessing of the orphan votes and no vote      *)
(* round of this node started by a request (a duplicate one included)      *)
(* attaches a vote to it.                                                  *)
C35_NoVoteAfterTimeout ==
    \A env \in RunEnvs :
        /\ \A v \in NetVotes \ DOMAIN mapTxLockVotes :
              NoLateVote(ProcessMessage(State, v, env))
        /\ \A t \in Tx : NoLateVote(ProcessTxLockRequest(State, t, env))

====
